---- MODULE Spec2Model ----
(***************************************************************************)
(* Model of the tick-driven backtest loop of src/strategy/backtest.py      *)
(* (BacktestEngine), with the Order and Position objects it mutates.       *)
(*                                                                         *)
(* A second part models RealTimeDataSource (data_source/                   *)
(* realtime_data_source.py): the alignment of the per-instrument series    *)
(* and the emission of the aligned rows. The engine never calls it (it     *)
(* calls data_loader.push_next_tick, which no class defines), so the two   *)
(* parts have a specification each: Spec and DataSpec.                     *)
(*                                                                         *)
(* Floats are modelled as exact rationals [k, n, d] plus a NaN value; the  *)
(* arithmetic follows Python: any operation on NaN gives NaN, every        *)
(* comparison with NaN is False, division by zero raises.                  *)
(* A tick carries one quote (askp1, bidp1): _process_orders reads it at    *)
(* the top level of current_data, _get_current_price under the symbol key; *)
(* the feed modelled here exposes the same quote at both places.           *)
(***************************************************************************)
EXTENDS Integers, Sequences, FiniteSets, TLC

(* ---------------------------------------------------------------- bounds *)
MaxTicks == 3        \* snapshots the data loader yields at most
MaxOrders == 2       \* orders the strategy creates at most in one run
MaxPerTick == 1      \* orders the strategy creates at most in one on_data call
MaxGap == 1          \* largest distance between two consecutive timestamps
DayLen == 2          \* timestamp units in one calendar day
GTDLife == 0         \* expire_time - create_time of the GTD orders submitted
MaxObs == 2          \* rows of one instrument's input series at most
MaxTime == 3         \* the timestamps of the input series are 1 .. MaxTime
MaxCalls == 2        \* calls of start / _push_next_tick on one data source

(* --------------------------------------------------------------- numbers *)
RECURSIVE GCD(_, _)
GCD(a, b) == IF b = 0 THEN a ELSE GCD(b, a % b)

Abs(i) == IF i < 0 THEN -i ELSE i

NaN == [k |-> "nan", n |-> 0, d |-> 1]
None == [k |-> "none", n |-> 0, d |-> 1]

Num(n, d) ==
    LET g == GCD(Abs(n), Abs(d))
        s == IF d < 0 THEN -1 ELSE 1
    IN  [k |-> "num", n |-> (s * n) \div g, d |-> (s * d) \div g]

Q(i) == Num(i, 1)

IsNaN(a) == a.k = "nan"
IsNum(a) == a.k = "num"

RAdd(a, b) == IF IsNaN(a) \/ IsNaN(b) THEN NaN ELSE Num(a.n * b.d + b.n * a.d, a.d * b.d)
RNeg(a) == IF IsNaN(a) THEN NaN ELSE Num(-a.n, a.d)
RSub(a, b) == RAdd(a, RNeg(b))
RMul(a, b) == IF IsNaN(a) \/ IsNaN(b) THEN NaN ELSE Num(a.n * b.n, a.d * b.d)
\* a / b for b # 0 (the callers raise ZeroDivisionError before dividing by 0)
RDiv(a, b) == IF IsNaN(a) \/ IsNaN(b) THEN NaN ELSE Num(a.n * b.d, a.d * b.n)
IsZero(a) == IsNum(a) /\ a.n = 0

RLt(a, b) == IsNum(a) /\ IsNum(b) /\ a.n * b.d < b.n * a.d
RLe(a, b) == IsNum(a) /\ IsNum(b) /\ a.n * b.d <= b.n * a.d
RGt(a, b) == RLt(b, a)
RGe(a, b) == RLe(b, a)

\* Python's max(a, b) and min(a, b): the first argument unless the second beats it
PyMax2(a, b) == IF RGt(b, a) THEN b ELSE a
PyMin2(a, b) == IF RLt(b, a) THEN b ELSE a

\* Python's max(list) and min(list) on a non-empty list
RECURSIVE PyMaxFrom(_, _, _)
PyMaxFrom(xs, i, best) ==
    IF i > Len(xs) THEN best ELSE PyMaxFrom(xs, i + 1, PyMax2(best, xs[i]))
PyMax(xs) == PyMaxFrom(xs, 2, xs[1])

RECURSIVE PyMinFrom(_, _, _)
PyMinFrom(xs, i, best) ==
    IF i > Len(xs) THEN best ELSE PyMinFrom(xs, i + 1, PyMin2(best, xs[i]))
PyMin(xs) == PyMinFrom(xs, 2, xs[1])

(* ----------------------------------------------------------------- enums *)
OrderDirection == {"BUY", "SELL"}
OrderType == {"LIMIT", "MARKET", "STOP", "TIME"}
OrderTimeInForce == {"GTC", "DAY", "GTD"}
OrderStatus == {"PENDING", "FILLED", "CANCELLED", "REJECTED"}

Instruments == {"A", "B"}
NoTime == -1         \* a datetime attribute that is None

commission_rate == Num(5, 10000)

(* ------------------------------------------------------------ the inputs *)
\* the quotes (bidp1, askp1) a tick may carry: three with a spread, a locked one
\* (bid = ask), and NaN for a row of the aligned data without an observation
Quotes == { <<Q(10), Q(11)>>, <<Q(12), Q(13)>>, <<Q(9), Q(10)>>, <<Q(10), Q(10)>>,
            <<NaN, NaN>> }

Tick(t, q) == [timestamp |-> t, bidp1 |-> q[1], askp1 |-> q[2]]
NoneTick == [timestamp |-> NoTime, bidp1 |-> None, askp1 |-> None]

\* what the strategy passes to Order(...): every field but create_time / expire_time
Req(i, dir, typ, p, v, tif) ==
    [instrument |-> i, direction |-> dir, order_type |-> typ, price |-> p,
     volume |-> v, time_in_force |-> tif]

OrderMenu ==
    \* the plain orders of the strategies: MARKET, price 0, volume 1
    { Req("A", dir, "MARKET", Q(0), 1, "GTC") : dir \in OrderDirection }
    \cup { Req("B", "BUY", "MARKET", Q(0), 1, "GTC") }
    \* other volumes, and a MARKET order that carries a price
    \cup { Req("A", "BUY", "MARKET", Q(11), 0, "GTC"),
           Req("A", "BUY", "MARKET", Q(11), 2, "GTC"),
           Req("A", "SELL", "MARKET", Q(0), 2, "GTC") }
    \* priced orders on either side of the quotes
    \cup { Req("A", "BUY", typ, Q(11), 1, "GTC") : typ \in {"LIMIT", "STOP"} }
    \cup { Req("A", "SELL", typ, Q(10), 1, "GTC") : typ \in {"LIMIT", "STOP"} }
    \* orders with a limited time in force
    \cup { Req("A", "BUY", "MARKET", Q(0), 1, "DAY"),
           Req("A", "BUY", "LIMIT", Q(10), 1, "DAY"),
           Req("A", "BUY", "LIMIT", Q(10), 1, "GTD") }

\* Order.__init__
NewOrder(id, r, now) ==
    [order_id |-> id, instrument |-> r.instrument, direction |-> r.direction,
     price |-> r.price, volume |-> r.volume, order_type |-> r.order_type,
     time_in_force |-> r.time_in_force,
     expire_time |-> IF r.time_in_force = "GTD" THEN now + GTDLife ELSE NoTime,
     create_time |-> now, filled_time |-> NoTime, filled_price |-> None,
     status |-> "PENDING"]

\* Position.__init__
NewPosition(symbol, direction, volume, price, timestamp, rate) ==
    [symbol |-> symbol, direction |-> direction, volume |-> volume,
     open_price |-> price, open_time |-> timestamp, current_price |-> price,
     pnl |-> Q(0), commission_rate |-> rate, total_commission |-> Q(0)]

(* ------------------------------------------------------------- the state *)
VARIABLES
    pc,                 \* where BacktestEngine.run is
    current_data,       \* self.current_data
    nticks,             \* snapshots the data loader has yielded
    last_time,          \* timestamp of the last snapshot yielded
    order_objs,         \* every Order object created, by identity
    strategy_orders,    \* strategy.orders: the identities, in list order
    strategy_positions, \* strategy.positions: instrument -> Position
    performance_stats,  \* self.performance_stats
    equity_curve,       \* self.equity_curve (<<>>: the attribute is not set yet)
    pnl,                \* the local pnl of _process_orders, as last assigned
    trace,              \* what the last _process_orders call did, in order
    feed,               \* the snapshots yielded so far
    data,               \* RealTimeDataSource.data: symbol -> input series
    aligned_data,       \* RealTimeDataSource.aligned_data: the rows, in index order
    current_idx,        \* RealTimeDataSource.current_idx
    emitted,            \* the row indices passed to stream.emit, in order
    ds_pc,              \* "new": aligned_data not set; "aligned"; "raised"
    calls               \* start / _push_next_tick calls made so far

engine_vars == <<pc, current_data, nticks, last_time, order_objs, strategy_orders,
                 strategy_positions, performance_stats, equity_curve, pnl, trace, feed>>

ds_vars == <<data, aligned_data, current_idx, emitted, ds_pc, calls>>

vars == <<engine_vars, ds_vars>>

Init ==
    /\ pc = "fetch"
    /\ current_data = NoneTick
    /\ nticks = 0
    /\ last_time = NoTime
    /\ order_objs = << >>
    /\ strategy_orders = << >>
    /\ strategy_positions = << >>
    /\ performance_stats = [total_trades |-> 0, win_trades |-> 0, loss_trades |-> 0,
                            max_drawdown |-> Q(0), total_commission |-> Q(0)]
    /\ equity_curve = << >>
    /\ pnl = None
    /\ trace = << >>
    /\ feed = << >>
    \* RealTimeDataSource.__init__
    /\ data = << >>
    /\ aligned_data = << >>
    /\ current_idx = 0
    /\ emitted = << >>
    /\ ds_pc = "new"
    /\ calls = 0

(* ------------------------------------------------------- the data loader *)
\* data_loader.push_next_tick(): the next snapshot, timestamps ascending, or None
\* once the aligned sequence is exhausted
NextTicks ==
    IF nticks >= MaxTicks THEN {}
    ELSE { Tick(t, q) :
             t \in (IF nticks = 0 THEN {0}
                    ELSE (last_time + 1) .. (last_time + MaxGap)),
             q \in Quotes }

\* run(), line 40
Fetch ==
    /\ pc = "fetch"
    /\ \E tk \in NextTicks \cup {NoneTick} :
         /\ current_data' = tk
         /\ IF tk = NoneTick
            THEN UNCHANGED <<nticks, last_time, feed>>
            ELSE /\ nticks' = nticks + 1
                 /\ last_time' = tk.timestamp
                 /\ feed' = Append(feed, tk)
    /\ pc' = "on_data"
    /\ UNCHANGED <<order_objs, strategy_orders, strategy_positions,
                   performance_stats, equity_curve, pnl, trace>>
    /\ UNCHANGED ds_vars

(* ---------------------------------------------------------- the strategy *)
\* strategy.on_data(current_data): the strategy appends the orders it creates
\* to strategy.orders (none when it is handed None)
\* Submit that inserts each new order at the front of strategy.orders
RECURSIVE SubmitInFront(_, _, _, _)
SubmitInFront(objs, active, reqs, now) ==
    IF reqs = << >> THEN <<objs, active>>
    ELSE LET id == Len(objs) + 1
         IN  SubmitInFront(Append(objs, NewOrder(id, Head(reqs), now)),
                           <<id>> \o active, Tail(reqs), now)

RECURSIVE Submit(_, _, _, _)
Submit(objs, active, reqs, now) ==
    IF reqs = << >> THEN <<objs, active>>
    ELSE LET id == Len(objs) + 1
         IN  Submit(Append(objs, NewOrder(id, Head(reqs), now)),
                    Append(active, id), Tail(reqs), now)

Submissions ==
    IF current_data = NoneTick THEN { << >> }
    ELSE LET room == IF MaxOrders - Len(order_objs) < MaxPerTick
                     THEN MaxOrders - Len(order_objs) ELSE MaxPerTick
         IN  UNION { [1 .. n -> OrderMenu] : n \in 0 .. room }

OnData ==
    /\ pc = "on_data"
    /\ \E reqs \in Submissions :
         LET res == Submit(order_objs, strategy_orders, reqs, current_data.timestamp)
         IN  /\ order_objs' = res[1]
             /\ strategy_orders' = res[2]
    /\ pc' = "process_orders"
    /\ UNCHANGED <<current_data, nticks, last_time, strategy_positions,
                   performance_stats, equity_curve, pnl, trace, feed>>
    /\ UNCHANGED ds_vars

(* ------------------------------------------------------ _process_orders *)
\* pd.Timestamp.date()
Date(t) == t \div DayLen

Ev(e, id, from, to) == [ev |-> e, id |-> id, from |-> from, to |-> to]

\* Expired with a GTD order already past its time in force at its expiry timestamp
ExpiredAtExpiry(o, ts) ==
    CASE o.time_in_force = "GTC" -> FALSE
      [] o.time_in_force = "DAY" -> Date(ts) > Date(o.create_time)
      [] o.time_in_force = "GTD" -> ts >= o.expire_time

\* lines 65-77: the order is past its time in force at timestamp ts
Expired(o, ts) ==
    CASE o.time_in_force = "GTC" -> FALSE
      [] o.time_in_force = "DAY" -> Date(ts) > Date(o.create_time)
      [] o.time_in_force = "GTD" -> ts > o.expire_time

\* TouchedQuote with the sides swapped: a BUY at the bid, a SELL at the ask
TouchedQuoteSwapped(o, tk) == IF o.direction = "BUY" THEN tk.bidp1 ELSE tk.askp1

\* the side of the quote an order touches
TouchedQuote(o, tk) == IF o.direction = "BUY" THEN tk.askp1 ELSE tk.bidp1

\* lines 80-113: the price condition of the order's type holds on this quote
Triggered(o, tk) ==
    CASE o.order_type = "MARKET" -> TRUE
      [] o.order_type = "LIMIT" ->
            \/ o.direction = "BUY" /\ RLe(tk.askp1, o.price)
            \/ o.direction = "SELL" /\ RGe(tk.bidp1, o.price)
      [] o.order_type = "STOP" ->
            IF o.direction = "BUY" THEN RGe(tk.askp1, o.price)
            ELSE RLe(tk.bidp1, o.price)
      [] OTHER -> FALSE

\* lines 82-86, 91-94, 96-98, 105-107, 111-113: the order fills on this quote
Fill(o, tk) ==
    [o EXCEPT !.filled_price = TouchedQuote(o, tk),
              !.status = "FILLED",
              !.filled_time = tk.timestamp,
              !.create_time = IF o.order_type = "LIMIT" /\ o.direction = "BUY"
                                 /\ o.create_time = NoTime
                              THEN tk.timestamp ELSE o.create_time]

\* line 63: only a PENDING order is matched
Matchable(o) == o.status = "PENDING"

\* add_commission that leaves the position's cumulative commission as it is
add_commission_skipped(p, price, volume) == p

\* Position.add_commission
add_commission(p, price, volume) ==
    [p EXCEPT !.total_commission =
        RAdd(p.total_commission, RMul(RMul(price, Q(volume)), p.commission_rate))]

\* Position.close: the position with the closing commission added, and the pnl returned
close(p) ==
    LET commission == RMul(RMul(p.current_price, Q(p.volume)), p.commission_rate)
    IN  [position |-> [p EXCEPT !.total_commission = RAdd(p.total_commission, commission)],
         pnl |-> RSub(p.pnl, commission)]

\* Position.update
update(p, current_price) ==
    LET raw == RMul(RSub(current_price, p.open_price), Q(p.volume))
    IN  [p EXCEPT !.current_price = current_price,
                  !.pnl = IF p.direction = "SELL" THEN RNeg(raw) ELSE raw]

\* del self.strategy.positions[instrument]
DelPosition(ps, i) == [j \in DOMAIN ps \ {i} |-> ps[j]]

\* PutPosition that keeps no other entry of the dict
PutPositionAlone(ps, i, p) == [j \in {i} |-> p]
\* self.strategy.positions[instrument] = p
PutPosition(ps, i, p) == [j \in DOMAIN ps \cup {i} |-> IF j = i THEN p ELSE ps[j]]

\* list.remove(x): the list without the first element equal to x
RECURSIVE Remove(_, _)
Remove(xs, x) ==
    IF xs = << >> THEN << >>
    ELSE IF Head(xs) = x THEN Tail(xs)
    ELSE <<Head(xs)>> \o Remove(Tail(xs), x)


\* Reaverage without the volume weights
ReaverageUnweighted(p, fp, volume) == RDiv(RAdd(p.open_price, fp), Q(2))

\* lines 123-125: the open price after adding volume at price fp (total volume # 0)
Reaverage(p, fp, volume) ==
    RDiv(RAdd(RMul(p.open_price, Q(p.volume)), RMul(fp, Q(volume))),
         Q(p.volume + volume))

\* PartialClosePnl without the sign flip for a SELL position
PartialClosePnlUnsigned(p, fp, volume) == RMul(RSub(fp, p.open_price), Q(volume))

\* lines 139-141: the pnl of closing volume of position p at price fp
PartialClosePnl(p, fp, volume) ==
    LET raw == RMul(RSub(fp, p.open_price), Q(volume))
    IN  IF p.direction = "SELL" THEN RNeg(raw) ELSE raw

\* lines 116-159: the position ledger takes the fill of order o.
\* s is the engine's state inside the loop: objs, active, positions,
\* total_commission, pnl, trace, crashed
ApplyFill(s, o, ts) ==
    LET i == o.instrument
        fp == o.filled_price
        fee == RMul(RMul(fp, Q(o.volume)), commission_rate)
    IN
    IF i \in DOMAIN s.positions
    THEN LET p == s.positions[i] IN
         IF p.direction = o.direction
         THEN LET total_volume == p.volume + o.volume IN
              IF total_volume = 0
              THEN [s EXCEPT !.crashed = TRUE]      \* ZeroDivisionError, line 124
              ELSE LET avg == Reaverage(p, fp, o.volume)
                       p2 == add_commission([p EXCEPT !.open_price = avg,
                                                      !.volume = total_volume],
                                            fp, o.volume)
                   IN  [s EXCEPT !.positions = PutPosition(s.positions, i, p2),
                                 !.total_commission = RAdd(s.total_commission, fee),
                                 !.trace = Append(s.trace, Ev("ledger", o.order_id, "", "add"))]
         ELSE IF o.volume >= p.volume
              THEN LET c == close(p) IN
                   [s EXCEPT !.pnl = c.pnl,
                             !.total_commission =
                                 RAdd(s.total_commission, c.position.total_commission),
                             !.positions = DelPosition(s.positions, i),
                             !.trace = Append(s.trace, Ev("ledger", o.order_id, "", "close"))]
              ELSE LET p2 == [p EXCEPT !.volume = p.volume - o.volume,
                                       !.total_commission = RAdd(p.total_commission, fee)]
                   IN  [s EXCEPT !.pnl = PartialClosePnl(p, fp, o.volume),
                                 !.positions = PutPosition(s.positions, i, p2),
                                 !.total_commission = RAdd(s.total_commission, fee),
                                 !.trace = Append(s.trace, Ev("ledger", o.order_id, "", "reduce"))]
    ELSE LET p == add_commission(
                      NewPosition(i, o.direction, o.volume, fp, ts, commission_rate),
                      fp, o.volume)
         IN  [s EXCEPT !.positions = PutPosition(s.positions, i, p),
                       !.total_commission = RAdd(s.total_commission, fee),
                       !.trace = Append(s.trace, Ev("ledger", o.order_id, "", "open"))]

\* Match without the `continue` of lines 72 and 77: the fill evaluation also runs
\* for the order the expiry check has just cancelled
MatchWithoutContinue(s, id, tk) ==
    LET o == s.objs[id] IN
    IF ~Matchable(o) THEN [s |-> s, continue |-> FALSE]
    ELSE LET s1 == IF Expired(o, tk.timestamp)
                   THEN [s EXCEPT !.objs[id].status = "CANCELLED",
                                  !.trace = Append(s.trace,
                                                   Ev("status", id, o.status, "CANCELLED"))]
                   ELSE s
             o1 == s1.objs[id]
         IN  IF Triggered(o1, tk)
             THEN [s |-> [s1 EXCEPT !.objs[id] = Fill(o1, tk),
                                    !.trace = Append(s1.trace,
                                                     Ev("status", id, o1.status, "FILLED"))],
                   continue |-> FALSE]
             ELSE [s |-> s1, continue |-> FALSE]

\* lines 63-113: expiry check, then fill evaluation, of the order with identity id
Match(s, id, tk) ==
    LET o == s.objs[id] IN
    IF ~Matchable(o) THEN [s |-> s, continue |-> FALSE]
    ELSE IF Expired(o, tk.timestamp)
    THEN [s |-> [s EXCEPT !.objs[id].status = "CANCELLED",
                          !.trace = Append(s.trace, Ev("status", id, o.status, "CANCELLED"))],
          continue |-> TRUE]
    ELSE IF Triggered(o, tk)
    THEN [s |-> [s EXCEPT !.objs[id] = Fill(o, tk),
                          !.trace = Append(s.trace, Ev("status", id, o.status, "FILLED"))],
          continue |-> FALSE]
    ELSE [s |-> s, continue |-> FALSE]

\* lines 115-170: what follows the matching in the same iteration
Settle(s, id, tk) ==
    LET o == s.objs[id] IN
    IF o.status = "FILLED"
    THEN LET s2 == ApplyFill(s, o, tk.timestamp) IN
         IF s2.crashed THEN s2
         ELSE [s2 EXCEPT !.trace = s2.trace \o <<Ev("on_trade", id, "", ""),
                                                 Ev("remove", id, "", "")>>,
                         !.active = Remove(s2.active, id)]
    ELSE IF o.status = "CANCELLED"
    THEN [s EXCEPT !.trace = s.trace \o <<Ev("on_cancel", id, "", ""),
                                          Ev("remove", id, "", "")>>,
                   !.active = Remove(s.active, id)]
    ELSE s

\* one iteration of the loop of line 62
Body(s, id, tk) ==
    LET s1 == [s EXCEPT !.trace = Append(s.trace, Ev("visit", id, s.objs[id].status, ""))]
        m == Match(s1, id, tk)
    IN  IF m.continue THEN m.s ELSE Settle(m.s, id, tk)

\* line 62, `for order in self.strategy.orders`: the list iterator holds an
\* index k into the list, which the removals of the body shorten under it
RECURSIVE ForOrders(_, _, _)
ForOrders(s, k, tk) ==
    IF s.crashed \/ k > Len(s.active) THEN s
    ELSE ForOrders(Body(s, s.active[k], tk), k + 1, tk)

\* _process_orders
ProcessOrders ==
    /\ pc = "process_orders"
    /\ IF current_data = NoneTick
       THEN \* line 57: None['askp1'] raises TypeError
            /\ pc' = "crashed"
            /\ UNCHANGED <<order_objs, strategy_orders, strategy_positions,
                           performance_stats, pnl, trace>>
       ELSE LET s0 == [objs |-> order_objs, active |-> strategy_orders,
                       positions |-> strategy_positions,
                       total_commission |-> performance_stats.total_commission,
                       pnl |-> pnl, trace |-> << >>, crashed |-> FALSE]
                s == ForOrders(s0, 1, current_data)
            IN  /\ order_objs' = s.objs
                /\ strategy_orders' = s.active
                /\ strategy_positions' = s.positions
                /\ performance_stats' =
                       [performance_stats EXCEPT !.total_commission = s.total_commission]
                /\ pnl' = s.pnl
                /\ trace' = s.trace
                /\ pc' = IF s.crashed THEN "crashed" ELSE "update_stats"
    /\ UNCHANGED <<current_data, nticks, last_time, equity_curve, feed>>
    /\ UNCHANGED ds_vars

(* --------------------------------------------- _update_performance_stats *)
\* _get_current_price
GetCurrentPrice(tk, symbol) == RDiv(RAdd(tk.askp1, tk.bidp1), Q(2))

\* lines 181-184: every position marked to the current price
MarkPositions(ps, tk) == [i \in DOMAIN ps |-> update(ps[i], GetCurrentPrice(tk, ps[i].symbol))]

RECURSIVE SumPnl(_, _)
SumPnl(ps, dom) ==
    IF dom = {} THEN Q(0)
    ELSE LET i == CHOOSE j \in dom : TRUE
         IN  RAdd(ps[i].pnl, SumPnl(ps, dom \ {i}))

\* lines 192-194
Drawdown(curve) ==
    LET peak == PyMax(curve)
        trough == PyMin(curve)
    IN  IF ~IsZero(peak) THEN RDiv(RSub(peak, trough), peak) ELSE Q(0)

\* NewMaxDrawdown that keeps the latest drawdown instead of the largest
LatestDrawdown(old, drawdown) == drawdown

\* lines 195-197
NewMaxDrawdown(old, drawdown) == PyMax2(old, drawdown)

UpdatePerformanceStats ==
    /\ pc = "update_stats"
    /\ LET ps == MarkPositions(strategy_positions, current_data)
           total_pnl == SumPnl(ps, DOMAIN ps)
           base == IF equity_curve = << >> THEN <<Q(0)>> ELSE equity_curve
           curve == Append(base, RAdd(base[Len(base)], total_pnl))
       IN  /\ strategy_positions' = ps
           /\ equity_curve' = curve
           /\ performance_stats' =
                  [performance_stats EXCEPT !.max_drawdown =
                      NewMaxDrawdown(performance_stats.max_drawdown, Drawdown(curve))]
    \* run(), lines 42-43
    /\ pc' = IF current_data = NoneTick THEN "report" ELSE "fetch"
    /\ UNCHANGED <<current_data, nticks, last_time, order_objs, strategy_orders,
                   pnl, trace, feed>>
    /\ UNCHANGED ds_vars

(* ------------------------------------------------------ _generate_report *)
\* float('inf')
Inf == [k |-> "inf", n |-> 1, d |-> 1]

\* dict.get(key, default)
Get(d, key, default) == IF key \in DOMAIN d THEN d[key] ELSE default

\* _generate_report with the profit factor computed without the guard on total_loss
GenerateReportUnguarded(stats) ==
    [total_trades |-> stats.total_trades,
     win_trades |-> stats.win_trades,
     loss_trades |-> stats.loss_trades,
     max_drawdown |-> stats.max_drawdown,
     total_commission |-> stats.total_commission,
     total_pnl |-> RSub(Get(stats, "total_profit", Q(0)), Get(stats, "total_loss", Q(0))),
     win_rate |-> IF stats.total_trades > 0
                  THEN RDiv(Q(stats.win_trades), Q(stats.total_trades)) ELSE Q(0),
     profit_factor |-> RDiv(Get(stats, "total_profit", Q(0)), Get(stats, "total_loss", Q(1)))]

\* _generate_report: the copy of performance_stats with the derived entries
\* (running_time, a wall-clock difference, is left out)
GenerateReport(stats) ==
    [total_trades |-> stats.total_trades,
     win_trades |-> stats.win_trades,
     loss_trades |-> stats.loss_trades,
     max_drawdown |-> stats.max_drawdown,
     total_commission |-> stats.total_commission,
     total_pnl |-> RSub(Get(stats, "total_profit", Q(0)), Get(stats, "total_loss", Q(0))),
     win_rate |-> IF stats.total_trades > 0
                  THEN RDiv(Q(stats.win_trades), Q(stats.total_trades)) ELSE Q(0),
     profit_factor |-> IF RGt(Get(stats, "total_loss", Q(0)), Q(0))
                       THEN RDiv(Get(stats, "total_profit", Q(0)), Get(stats, "total_loss", Q(1)))
                       ELSE Inf]

(* ------------------------------------------------------ the specification *)
Next == Fetch \/ OnData \/ ProcessOrders \/ UpdatePerformanceStats

Spec == Init /\ [][Next]_vars

(* -------------------------------------------------- RealTimeDataSource *)
\* the input series file_ds.load_data(symbol) may return: 1 .. MaxObs rows with
\* index labels in 1 .. MaxTime in any order; row k carries the quote Q(k)
IndexLabels == UNION { [1 .. n -> 1 .. MaxTime] : n \in 1 .. MaxObs }

Series(labels) == [k \in DOMAIN labels |-> [timestamp |-> labels[k], value |-> Q(k)]]

\* the index labels of a series, as a set
Labels(df) == { df[k].timestamp : k \in DOMAIN df }

\* the index of the series has a label twice
HasDuplicateLabels(df) == Cardinality(Labels(df)) < Len(df)

\* sorted(S)
RECURSIVE Sorted(_)
Sorted(S) ==
    IF S = {} THEN << >>
    ELSE LET m == CHOOSE x \in S : \A y \in S : x <= y
         IN  <<m>> \o Sorted(S \ {m})

\* df.reindex(index), one label of it: the row of df with that label, NaN when
\* df has none (the labels of df are unique)
Reindex(df, label) ==
    IF label \in Labels(df)
    THEN LET k == CHOOSE j \in DOMAIN df : df[j].timestamp = label IN df[k].value
    ELSE NaN

\* _align_timestamps
AlignTimestamps(d) ==
    LET index == Sorted(UNION { Labels(d[sym]) : sym \in DOMAIN d })
    IN  [k \in DOMAIN index |->
            [timestamp |-> index[k],
             cells |-> [sym \in DOMAIN d |-> Reindex(d[sym], index[k])]]]

\* load_data, lines 19-24, with df the series file_ds returns for the symbol
\* (line 20 as written passes start_time and end_time as well, which
\* FileDataSource.load_data does not take). DataFrame.reindex raises ValueError
\* on a series whose index has duplicate labels.
LoadData ==
    /\ ds_pc = "new"
    /\ \E labels \in [Instruments -> IndexLabels] :
         LET d == [sym \in Instruments |-> Series(labels[sym])] IN
         /\ data' = d
         /\ IF \E sym \in Instruments : HasDuplicateLabels(d[sym])
            THEN aligned_data' = << >> /\ ds_pc' = "raised"
            ELSE aligned_data' = AlignTimestamps(d) /\ ds_pc' = "aligned"
    /\ UNCHANGED <<current_idx, emitted, calls>>
    /\ UNCHANGED engine_vars

\* _push_next_tick from index idx on: lines 46-65, the method calls itself until
\* the index reaches len(aligned_data)
RECURSIVE Push(_, _)
Push(idx, log) ==
    IF idx >= Len(aligned_data) THEN [current_idx |-> idx, emitted |-> log]
    ELSE Push(idx + 1, Append(log, idx))

\* start()
Start ==
    /\ ds_pc = "aligned"
    /\ calls < MaxCalls
    /\ LET r == Push(0, emitted)
       IN  current_idx' = r.current_idx /\ emitted' = r.emitted
    /\ calls' = calls + 1
    /\ UNCHANGED <<data, aligned_data, ds_pc>>
    /\ UNCHANGED engine_vars

\* _push_next_tick()
PushNextTick ==
    /\ ds_pc = "aligned"
    /\ calls < MaxCalls
    /\ LET r == Push(current_idx, emitted)
       IN  current_idx' = r.current_idx /\ emitted' = r.emitted
    /\ calls' = calls + 1
    /\ UNCHANGED <<data, aligned_data, ds_pc>>
    /\ UNCHANGED engine_vars

DataNext == LoadData \/ Start \/ PushNextTick

DataSpec == Init /\ [][DataNext]_vars


(* ------------------------------------------------------------ the claims *)
\* the snapshot a finished (or aborted) _process_orders call has matched against
Matched == pc \in {"update_stats", "crashed"} /\ current_data # NoneTick

\* the call visited order id while it was PENDING and did not cancel it by
\* expiry: the order reached the fill evaluation
Evaluated(id) ==
    /\ \E k \in DOMAIN trace :
          trace[k].ev = "visit" /\ trace[k].id = id /\ trace[k].from = "PENDING"
    /\ ~\E k \in DOMAIN trace :
          trace[k].ev = "status" /\ trace[k].id = id /\ trace[k].to = "CANCELLED"

\* C1: every entry of strategy.positions has a volume strictly greater than 0
C1_PositionVolumesPositive ==
    \A i \in DOMAIN strategy_positions : strategy_positions[i].volume > 0

\* C2: a PENDING MARKET order that is evaluated against a snapshot is FILLED in
\* that step, at the ask when it is a BUY and at the bid when it is a SELL,
\* whatever its own price field is
C2_MarketFillsAtTouchedQuote ==
    Matched =>
        \A id \in DOMAIN order_objs :
            Evaluated(id) /\ order_objs[id].order_type = "MARKET" =>
                /\ order_objs[id].status = "FILLED"
                /\ order_objs[id].filled_time = current_data.timestamp
                /\ order_objs[id].filled_price =
                      IF order_objs[id].direction = "BUY" THEN current_data.askp1
                      ELSE current_data.bidp1

\* C2 witness: a MARKET BUY was evaluated on a quote with a spread and filled at
\* the ask, which is neither the bid nor the order's own price
C2_Witness ==
    /\ Matched
    /\ \E id \in DOMAIN order_objs :
          /\ Evaluated(id)
          /\ order_objs[id].order_type = "MARKET"
          /\ order_objs[id].direction = "BUY"
          /\ order_objs[id].filled_price = current_data.askp1
          /\ RLt(current_data.bidp1, current_data.askp1)
          /\ order_objs[id].price # order_objs[id].filled_price

\* the step's snapshot is past the time in force of the order
PastTimeInForce(o) ==
    \/ o.time_in_force = "DAY" /\ Date(current_data.timestamp) > Date(o.create_time)
    \/ o.time_in_force = "GTD" /\ current_data.timestamp > o.expire_time

\* the LIMIT condition of the claim on the step's snapshot
LimitCrossed(o) ==
    \/ o.direction = "BUY" /\ RLe(current_data.askp1, o.price)
    \/ o.direction = "SELL" /\ RGe(current_data.bidp1, o.price)

\* C3: a PENDING LIMIT order of the active set (not past its time in force)
\* fills in a step if and only if the step's quote crosses its limit price, and
\* then at the touched quote; otherwise it stays PENDING and in the active set
C3_LimitFillsIffCrossed ==
    [][pc = "process_orders" /\ current_data # NoneTick =>
        \A k \in DOMAIN strategy_orders :
            LET id == strategy_orders[k]
                o == order_objs[id]
                o2 == order_objs'[id]
            IN  o.status = "PENDING" /\ o.order_type = "LIMIT" /\ ~PastTimeInForce(o) =>
                    /\ (o2.status = "FILLED") <=> LimitCrossed(o)
                    /\ LimitCrossed(o) =>
                          o2.filled_price = IF o.direction = "BUY" THEN current_data.askp1
                                            ELSE current_data.bidp1
                    /\ ~LimitCrossed(o) =>
                          /\ o2.status = "PENDING"
                          /\ \E j \in DOMAIN strategy_orders' : strategy_orders'[j] = id
    ]_vars

\* C4: a PENDING DAY order of the active set whose creation day lies before the
\* day of the step's snapshot is CANCELLED in that step, is not FILLED, and the
\* position ledger takes no fill of it
C4_DayOrderCancelledBeforeFill ==
    [][pc = "process_orders" /\ current_data # NoneTick =>
        \A k \in DOMAIN strategy_orders :
            LET id == strategy_orders[k]
                o == order_objs[id]
            IN  /\ o.status = "PENDING"
                /\ o.time_in_force = "DAY"
                /\ Date(current_data.timestamp) > Date(o.create_time)
                =>  /\ order_objs'[id].status = "CANCELLED"
                    /\ ~\E j \in DOMAIN trace' :
                          trace'[j].ev = "ledger" /\ trace'[j].id = id
    ]_vars

\* C5: in a step whose snapshot has no bid/ask, no PENDING order changes status
\* and no position is created or changed
C5_NoDataStepChangesNothing ==
    [][/\ pc = "process_orders"
       /\ current_data # NoneTick
       /\ IsNaN(current_data.bidp1) /\ IsNaN(current_data.askp1)
       => /\ \A id \in DOMAIN order_objs :
                order_objs[id].status = "PENDING" => order_objs'[id].status = "PENDING"
          /\ strategy_positions' = strategy_positions
    ]_vars


\* the FILLED orders on instrument i
FilledOn(i) ==
    { id \in DOMAIN order_objs :
        order_objs[id].status = "FILLED" /\ order_objs[id].instrument = i }

RECURSIVE SumVolume(_)
SumVolume(ids) ==
    IF ids = {} THEN 0
    ELSE LET id == CHOOSE x \in ids : TRUE
         IN  order_objs[id].volume + SumVolume(ids \ {id})

RECURSIVE SumValue(_)
SumValue(ids) ==
    IF ids = {} THEN Q(0)
    ELSE LET id == CHOOSE x \in ids : TRUE
         IN  RAdd(RMul(order_objs[id].filled_price, Q(order_objs[id].volume)),
                  SumValue(ids \ {id}))

\* every fill on instrument i so far had the same direction and a numeric price
SameDirectionFills(i) ==
    /\ FilledOn(i) # {}
    /\ \A a, b \in FilledOn(i) : order_objs[a].direction = order_objs[b].direction
    /\ \A a \in FilledOn(i) : IsNum(order_objs[a].filled_price)

\* C6: after same-direction fills on an instrument that started without a
\* position, the position's volume is the sum of the fill volumes and its open
\* price is the volume-weighted average of the fill prices
C6_ReaverageIsVolumeWeighted ==
    pc # "crashed" =>
        \A i \in Instruments :
            SameDirectionFills(i) =>
                /\ i \in DOMAIN strategy_positions
                /\ strategy_positions[i].volume = SumVolume(FilledOn(i))
                /\ SumVolume(FilledOn(i)) > 0 =>
                      strategy_positions[i].open_price =
                          RDiv(SumValue(FilledOn(i)), Q(SumVolume(FilledOn(i))))

\* C6 witness: two same-direction fills of different volumes at different prices
C6_Witness ==
    /\ pc # "crashed"
    /\ \E i \in Instruments :
          /\ SameDirectionFills(i)
          /\ \E a, b \in FilledOn(i) :
                /\ order_objs[a].volume # order_objs[b].volume
                /\ order_objs[a].volume > 0 /\ order_objs[b].volume > 0
                /\ order_objs[a].filled_price # order_objs[b].filled_price

\* the equity curve never falls from one step to the next
CurveNonDecreasing ==
    /\ equity_curve # << >>
    /\ \A k \in 1 .. (Len(equity_curve) - 1) : RLe(equity_curve[k], equity_curve[k + 1])

\* C7: while the equity curve is monotonically non-decreasing, max_drawdown is 0
C7_NoDrawdownOnRisingCurve ==
    CurveNonDecreasing => IsZero(performance_stats.max_drawdown)

\* C8: max_drawdown never decreases from one step to the next and is never
\* below its initial value 0
C8_MaxDrawdownMonotone ==
    /\ [][RGe(performance_stats'.max_drawdown, performance_stats.max_drawdown)]_vars
    /\ [](RGe(performance_stats.max_drawdown, Q(0)))

\* C8 witness: the drawdown of the current curve lies below the maximum kept
C8_Witness ==
    /\ pc = "fetch"
    /\ equity_curve # << >>
    /\ RLt(Drawdown(equity_curve), performance_stats.max_drawdown)

\* the run of the end-to-end example, after the matching of its third step
EndToEndRun ==
    /\ pc = "update_stats"
    /\ Len(feed) = 3
    /\ feed[1].bidp1 = Q(10) /\ feed[1].askp1 = Q(11)
    /\ feed[2].bidp1 = Q(12) /\ feed[2].askp1 = Q(13)
    /\ feed[3].bidp1 = Q(9) /\ feed[3].askp1 = Q(10)
    /\ Len(order_objs) = 2
    /\ order_objs[1].instrument = order_objs[2].instrument
    /\ order_objs[1].order_type = "MARKET" /\ order_objs[1].direction = "BUY"
    /\ order_objs[1].volume = 1 /\ order_objs[1].create_time = feed[1].timestamp
    /\ order_objs[2].order_type = "MARKET" /\ order_objs[2].direction = "SELL"
    /\ order_objs[2].volume = 1 /\ order_objs[2].create_time = feed[3].timestamp

\* C9: in the end-to-end example the position opens at 11, is closed at the bid
\* 9, the realized P&L of the close is 9 - 11 = -2 minus the commissions (the
\* closing one, or the opening and the closing one) and no position remains
C9_EndToEndRealizedPnl ==
    EndToEndRun =>
        /\ order_objs[1].filled_price = Q(11)
        /\ order_objs[1].filled_time = feed[1].timestamp
        /\ order_objs[2].filled_price = Q(9)
        /\ order_objs[2].filled_time = feed[3].timestamp
        /\ strategy_positions = << >>
        /\ \/ pnl = RSub(Q(-2), RMul(Q(9), commission_rate))
           \/ pnl = RSub(Q(-2), RMul(Q(11 + 9), commission_rate))

Terminal == {"FILLED", "CANCELLED", "REJECTED"}

\* C10: every status assignment of the engine leads from PENDING to FILLED,
\* CANCELLED or REJECTED, and no step changes the status, filled_price or
\* filled_time of an order that is FILLED, CANCELLED or REJECTED
C10_TerminalStatusAbsorbing ==
    /\ [](\A k \in DOMAIN trace :
            trace[k].ev = "status" => trace[k].from = "PENDING" /\ trace[k].to \in Terminal)
    /\ [][\A id \in DOMAIN order_objs :
            /\ order_objs'[id].status # order_objs[id].status =>
                  order_objs[id].status = "PENDING" /\ order_objs'[id].status \in Terminal
            /\ order_objs[id].status \in Terminal =>
                  /\ order_objs'[id].status = order_objs[id].status
                  /\ order_objs'[id].filled_price = order_objs[id].filled_price
                  /\ order_objs'[id].filled_time = order_objs[id].filled_time
       ]_vars

\* C10 witness: a matching call came across an order that was already CANCELLED,
\* on a snapshot that would fill it, and left it CANCELLED
C10_Witness ==
    /\ Matched
    /\ \E k \in DOMAIN trace :
          /\ trace[k].ev = "visit" /\ trace[k].from = "CANCELLED"
          /\ order_objs[trace[k].id].status = "CANCELLED"
          /\ Triggered(order_objs[trace[k].id], current_data)

\* the order is in strategy.orders
InActiveSet(id) == \E k \in DOMAIN strategy_orders : strategy_orders[k] = id

\* C11: at the end of every _process_orders call every order remaining in
\* strategy.orders is PENDING, and every order that became FILLED or CANCELLED
\* during the call is no longer in the list
C11_TerminalOrdersLeaveActiveSet ==
    pc = "update_stats" /\ current_data # NoneTick =>
        /\ \A k \in DOMAIN strategy_orders :
              order_objs[strategy_orders[k]].status = "PENDING"
        /\ \A k \in DOMAIN trace :
              trace[k].ev = "status" /\ trace[k].to \in {"FILLED", "CANCELLED"} =>
                  ~InActiveSet(trace[k].id)

\* the positions of the log at which the loop came to order id
Visits(log, id) == { k \in DOMAIN log : log[k].ev = "visit" /\ log[k].id = id }

\* C12: every order that is PENDING in strategy.orders when the matching of a
\* step starts is evaluated exactly once in that step, in submission order,
\* also when an order before it is removed from the list in the same step
C12_EveryPendingOrderEvaluatedOnce ==
    [][pc = "process_orders" /\ current_data # NoneTick =>
        /\ \A k \in DOMAIN strategy_orders :
              order_objs[strategy_orders[k]].status = "PENDING" =>
                  Cardinality(Visits(trace', strategy_orders[k])) = 1
        /\ \A j, k \in DOMAIN strategy_orders :
              j < k =>
                  \A a \in Visits(trace', strategy_orders[j]),
                     b \in Visits(trace', strategy_orders[k]) : a < b
    ]_vars

\* what the specification calls an invalid order: a non-positive volume, an
\* unknown instrument, or a non-positive price on a LIMIT or STOP order
Invalid(o) ==
    \/ o.volume <= 0
    \/ o.instrument \notin Instruments
    \/ o.order_type \in {"LIMIT", "STOP"} /\ RLe(o.price, Q(0))

\* C13: an invalid order is REJECTED as soon as it is submitted, never enters
\* strategy.orders, is never FILLED and never creates or changes a position
C13_InvalidOrdersRejected ==
    \A id \in DOMAIN order_objs :
        Invalid(order_objs[id]) =>
            /\ order_objs[id].status = "REJECTED"
            /\ ~InActiveSet(id)
            /\ ~\E k \in DOMAIN trace : trace[k].ev = "ledger" /\ trace[k].id = id

\* C14: every order that becomes CANCELLED or REJECTED in a step gets the
\* strategy's on_cancel called with it in that same step, after the transition
C14_CancelNotifiedInSameStep ==
    pc = "update_stats" /\ current_data # NoneTick =>
        \A k \in DOMAIN trace :
            trace[k].ev = "status" /\ trace[k].to \in {"CANCELLED", "REJECTED"} =>
                \E j \in DOMAIN trace :
                    j > k /\ trace[j].ev = "on_cancel" /\ trace[j].id = trace[k].id

\* the positions of the log at which on_trade was called with order id
TradeCalls(log, id) == { k \in DOMAIN log : log[k].ev = "on_trade" /\ log[k].id = id }

\* the fill at position k of the log is followed by the ledger update for the
\* order, then by its on_trade call at position j, with no visit of another
\* order in between
NotifiedAfterLedger(k, j) ==
    /\ k < j
    /\ \E l \in DOMAIN trace :
          /\ k < l /\ l < j
          /\ trace[l].ev = "ledger" /\ trace[l].id = trace[k].id
    /\ \A l \in DOMAIN trace : k < l /\ l < j => trace[l].ev # "visit"

\* C15: for every order that fills in a step, on_trade is called exactly once
\* with that order, after the position ledger took the fill and before the
\* next order of the step is evaluated
C15_OnTradeOncePerFill ==
    Matched =>
        \A k \in DOMAIN trace :
            trace[k].ev = "status" /\ trace[k].to = "FILLED" =>
                /\ Cardinality(TradeCalls(trace, trace[k].id)) = 1
                /\ \A j \in TradeCalls(trace, trace[k].id) : NotifiedAfterLedger(k, j)

\* C15 on the calls that return: every fill of a _process_orders call that did
\* not raise has its single on_trade call after the ledger update
OnTradeOncePerFillOfCompletedCall ==
    pc = "update_stats" => C15_OnTradeOncePerFill

\* C16: run() executes one step per snapshot and none for the exhaustion
\* signal, and never stops part-way with an error: no callback, matching or
\* performance update runs with current_data = None, and nothing raises
C16_RunCompletesWithoutError ==
    /\ pc # "crashed"
    /\ pc \in {"on_data", "process_orders", "update_stats"} => current_data # NoneTick

\* the STOP condition of the claim on the step's snapshot
StopTriggered(o) ==
    \/ o.direction = "BUY" /\ RGe(current_data.askp1, o.price)
    \/ o.direction = "SELL" /\ RLe(current_data.bidp1, o.price)

\* C17: a PENDING STOP order of the active set (not past its time in force)
\* fills in a step if and only if ask >= trigger (BUY) or bid <= trigger (SELL),
\* and then at the ask (BUY) or the bid (SELL); otherwise it stays PENDING and
\* in the active set
C17_StopFillsIffTriggered ==
    [][pc = "process_orders" /\ current_data # NoneTick =>
        \A k \in DOMAIN strategy_orders :
            LET id == strategy_orders[k]
                o == order_objs[id]
                o2 == order_objs'[id]
            IN  o.status = "PENDING" /\ o.order_type = "STOP" /\ ~PastTimeInForce(o) =>
                    /\ (o2.status = "FILLED") <=> StopTriggered(o)
                    /\ StopTriggered(o) =>
                          o2.filled_price = IF o.direction = "BUY" THEN current_data.askp1
                                            ELSE current_data.bidp1
                    /\ ~StopTriggered(o) =>
                          /\ o2.status = "PENDING"
                          /\ \E j \in DOMAIN strategy_orders' : strategy_orders'[j] = id
    ]_vars

\* C17 on the orders the loop visits: the same statement for the STOP orders
\* that reach the fill evaluation of the step
StopFillsIffTriggeredWhenEvaluated ==
    Matched =>
        \A id \in DOMAIN order_objs :
            LET o == order_objs[id] IN
            Evaluated(id) /\ o.order_type = "STOP" =>
                /\ (o.status = "FILLED") <=> StopTriggered(o)
                /\ StopTriggered(o) =>
                      /\ o.filled_price = IF o.direction = "BUY" THEN current_data.askp1
                                          ELSE current_data.bidp1
                      /\ o.filled_time = current_data.timestamp
                /\ ~StopTriggered(o) => o.status = "PENDING" /\ InActiveSet(id)

\* the call came to order id while the order was PENDING
VisitedPending(id) ==
    \E k \in DOMAIN trace :
        trace[k].ev = "visit" /\ trace[k].id = id /\ trace[k].from = "PENDING"

\* the call set order id to CANCELLED
CancelledInCall(id) ==
    \E k \in DOMAIN trace :
        trace[k].ev = "status" /\ trace[k].id = id /\ trace[k].to = "CANCELLED"

\* C18: a PENDING GOOD_TILL_DATE order is cancelled (and not filled) in a step
\* in which it is evaluated with a snapshot timestamp > its expire_time, and is
\* not cancelled in a step whose timestamp is <= expire_time; a
\* GOOD_TILL_CANCEL order is never cancelled by the expiry check
C18_GTDCancelledOnlyAfterExpiry ==
    Matched =>
        \A id \in DOMAIN order_objs :
            LET o == order_objs[id] IN
            VisitedPending(id) =>
                /\ o.time_in_force = "GTD" /\ current_data.timestamp > o.expire_time =>
                      /\ CancelledInCall(id)
                      /\ o.status = "CANCELLED"
                      /\ o.filled_price = None /\ o.filled_time = NoTime
                /\ o.time_in_force = "GTD" /\ current_data.timestamp <= o.expire_time =>
                      ~CancelledInCall(id)
                /\ o.time_in_force = "GTC" => ~CancelledInCall(id) /\ o.status # "CANCELLED"

\* C18 witness: a GTD order that an earlier step left PENDING was evaluated
\* after its expire_time, on a quote that crosses its limit, and was cancelled
C18_Witness ==
    /\ Matched
    /\ \E id \in DOMAIN order_objs :
          /\ VisitedPending(id)
          /\ order_objs[id].time_in_force = "GTD"
          /\ order_objs[id].create_time <= order_objs[id].expire_time
          /\ current_data.timestamp > order_objs[id].expire_time
          /\ LimitCrossed(order_objs[id])
          /\ order_objs[id].status = "CANCELLED"

\* the ledger entries of a log
LedgerEntries(log) == { k \in DOMAIN log : log[k].ev = "ledger" }

\* the ledger entries of a log for the orders on instrument i
LedgerEntriesOn(log, objs, i) ==
    { k \in LedgerEntries(log) : objs[log[k].id].instrument = i }

\* fill price x volume x commission rate of a filled order
FillCommission(o) == RMul(RMul(o.filled_price, Q(o.volume)), commission_rate)

\* C19: a fill on an instrument without a position creates one position with
\* the fill's direction, volume and price, whose cumulative commission is fill
\* price x volume x commission rate, and the global total_commission grows by
\* exactly that amount (the position is read in a step with no other fill on
\* the instrument, the total in a step with no other fill at all)
C19_OpeningFillCreatesPosition ==
    [][pc = "process_orders" /\ current_data # NoneTick =>
        \A k \in LedgerEntries(trace') :
            LET o == order_objs'[trace'[k].id]
                i == o.instrument
            IN  i \notin DOMAIN strategy_positions =>
                    /\ LedgerEntriesOn(trace', order_objs', i) = {k} =>
                          /\ i \in DOMAIN strategy_positions'
                          /\ strategy_positions'[i].symbol = i
                          /\ strategy_positions'[i].direction = o.direction
                          /\ strategy_positions'[i].volume = o.volume
                          /\ strategy_positions'[i].open_price = o.filled_price
                          /\ strategy_positions'[i].total_commission = FillCommission(o)
                    /\ LedgerEntries(trace') = {k} =>
                          /\ performance_stats'.total_commission =
                                RAdd(performance_stats.total_commission, FillCommission(o))
                          /\ \A j \in DOMAIN strategy_positions :
                                /\ j \in DOMAIN strategy_positions'
                                /\ strategy_positions'[j] = strategy_positions[j]
    ]_vars

\* C19 witness: a step opened a position with a positive commission while the
\* global total already held the commission of an earlier fill
C19_Witness ==
    /\ pc = "update_stats"
    /\ \E k \in LedgerEntries(trace) :
          LET o == order_objs[trace[k].id] IN
          /\ trace[k].to = "open"
          /\ LedgerEntries(trace) = {k}
          /\ o.volume > 0
          /\ o.instrument \in DOMAIN strategy_positions
          /\ strategy_positions[o.instrument].total_commission = FillCommission(o)
          /\ RGt(FillCommission(o), Q(0))
          /\ RGt(performance_stats.total_commission, FillCommission(o))

\* C20: a fill against a position of the opposite direction with a volume
\* strictly below the position's volume is a partial close: the realized pnl is
\* (fill price - average price) x fill volume, negated for a SELL position; fill
\* price x fill volume x commission rate is added to the position's cumulative
\* commission and to the global total; the position's volume falls by the fill
\* volume and the entry remains (read in a step with no other fill)
C20_PartialCloseReducesPosition ==
    [][pc = "process_orders" /\ current_data # NoneTick =>
        \A k \in LedgerEntries(trace') :
            LET o == order_objs'[trace'[k].id]
                i == o.instrument
            IN  /\ LedgerEntries(trace') = {k}
                /\ i \in DOMAIN strategy_positions
                /\ strategy_positions[i].direction # o.direction
                /\ o.volume < strategy_positions[i].volume
                =>  LET p == strategy_positions[i]
                        raw == RMul(RSub(o.filled_price, p.open_price), Q(o.volume))
                    IN  /\ pnl' = IF p.direction = "SELL" THEN RNeg(raw) ELSE raw
                        /\ i \in DOMAIN strategy_positions'
                        /\ strategy_positions'[i].volume = p.volume - o.volume
                        /\ strategy_positions'[i].direction = p.direction
                        /\ strategy_positions'[i].open_price = p.open_price
                        /\ strategy_positions'[i].total_commission =
                              RAdd(p.total_commission, FillCommission(o))
                        /\ performance_stats'.total_commission =
                              RAdd(performance_stats.total_commission, FillCommission(o))
    ]_vars

\* C20 witness: a BUY of positive volume closed part of a SELL position at a
\* price other than its average price
C20_Witness ==
    /\ pc = "update_stats"
    /\ \E k \in LedgerEntries(trace) :
          LET o == order_objs[trace[k].id] IN
          /\ trace[k].to = "reduce"
          /\ LedgerEntries(trace) = {k}
          /\ o.volume > 0 /\ o.direction = "BUY"
          /\ o.instrument \in DOMAIN strategy_positions
          /\ strategy_positions[o.instrument].direction = "SELL"
          /\ strategy_positions[o.instrument].volume > 0
          /\ IsNum(pnl) /\ ~IsZero(pnl)

\* C21: a fill against a position of the opposite direction with a volume at
\* or above the position's volume is a full close: the realized pnl is (fill
\* price - average price) x position volume, negated for a SELL position (with
\* or without the closing commission deducted), the closing commission is fill
\* price x position volume x commission rate, the entry is deleted and no
\* opposite position is opened (read in a step with no other fill, for a fill
\* at a numeric price)
C21_FullCloseAtFillPrice ==
    [][pc = "process_orders" /\ current_data # NoneTick =>
        \A k \in LedgerEntries(trace') :
            LET o == order_objs'[trace'[k].id]
                i == o.instrument
            IN  /\ LedgerEntries(trace') = {k}
                /\ IsNum(o.filled_price)
                /\ i \in DOMAIN strategy_positions
                /\ strategy_positions[i].direction # o.direction
                /\ o.volume >= strategy_positions[i].volume
                =>  LET p == strategy_positions[i]
                        raw == RMul(RSub(o.filled_price, p.open_price), Q(p.volume))
                        gross == IF p.direction = "SELL" THEN RNeg(raw) ELSE raw
                        fee == RMul(RMul(o.filled_price, Q(p.volume)), commission_rate)
                        old == performance_stats.total_commission
                    IN  /\ pnl' \in {gross, RSub(gross, fee)}
                        /\ performance_stats'.total_commission \in
                              {RAdd(old, fee), RAdd(old, RAdd(p.total_commission, fee))}
                        /\ i \notin DOMAIN strategy_positions'
    ]_vars

\* the volume a fill is charged for: the closed position volume for a full
\* close, the fill volume for an open, an add or a partial close
ChargedVolume(o, ps) ==
    IF /\ o.instrument \in DOMAIN ps
       /\ ps[o.instrument].direction # o.direction
       /\ o.volume >= ps[o.instrument].volume
    THEN ps[o.instrument].volume
    ELSE o.volume

\* C22: total_commission is the sum of the commissions of the fills processed
\* so far, none counted twice and none omitted: every fill adds exactly price x
\* charged volume x commission rate to the total, which starts at 0 (read in
\* a step with no other fill, for a fill at a numeric price; for a full close
\* the price may be the fill price or the price the position was last marked at)
C22_TotalCommissionIsSumOfFills ==
    [][pc = "process_orders" /\ current_data # NoneTick =>
        \A k \in LedgerEntries(trace') :
            LET o == order_objs'[trace'[k].id]
                v == ChargedVolume(o, strategy_positions)
                old == performance_stats.total_commission
                atFill == RMul(RMul(o.filled_price, Q(v)), commission_rate)
                atMark == IF o.instrument \in DOMAIN strategy_positions
                          THEN RMul(RMul(strategy_positions[o.instrument].current_price,
                                         Q(v)), commission_rate)
                          ELSE atFill
            IN  LedgerEntries(trace') = {k} /\ IsNum(o.filled_price) =>
                    \/ performance_stats'.total_commission = RAdd(old, atFill)
                    \/ /\ trace'[k].to = "close"
                       /\ performance_stats'.total_commission = RAdd(old, atMark)
    ]_vars


(* ------------------------------------------------------------ determinism *)
\* the state of a run before its first snapshot
RunStart ==
    [objs |-> << >>, active |-> << >>, positions |-> << >>,
     stats |-> [total_trades |-> 0, win_trades |-> 0, loss_trades |-> 0,
                max_drawdown |-> Q(0), total_commission |-> Q(0)],
     curve |-> << >>, pnl |-> None, trace |-> << >>, crashed |-> FALSE]

\* what the strategy passed to Order(...) for the order object o
ReqOf(o) == Req(o.instrument, o.direction, o.order_type, o.price, o.volume, o.time_in_force)

\* the orders the strategy submitted in the step of timestamp t, in submission order
SubmittedAt(t) ==
    LET at == SelectSeq(order_objs, LAMBDA o : o.create_time = t)
    IN  [k \in DOMAIN at |-> ReqOf(at[k])]

\* the first `phases` phases of one step (on_data, _process_orders,
\* _update_performance_stats) applied to the run state r
ReplayStep(r, tk, reqs, phases) ==
    LET a == IF phases < 1 THEN r
             ELSE LET res == Submit(r.objs, r.active, reqs, tk.timestamp)
                  IN  [r EXCEPT !.objs = res[1], !.active = res[2]]
        b == IF phases < 2 THEN a
             ELSE LET s == ForOrders([objs |-> a.objs, active |-> a.active,
                                      positions |-> a.positions,
                                      total_commission |-> a.stats.total_commission,
                                      pnl |-> a.pnl, trace |-> << >>, crashed |-> FALSE],
                                     1, tk)
                  IN  [a EXCEPT !.objs = s.objs, !.active = s.active,
                                !.positions = s.positions,
                                !.stats.total_commission = s.total_commission,
                                !.pnl = s.pnl, !.trace = s.trace, !.crashed = s.crashed]
    IN  IF phases < 3 \/ b.crashed THEN b
        ELSE LET ps == MarkPositions(b.positions, tk)
                 base == IF b.curve = << >> THEN <<Q(0)>> ELSE b.curve
                 curve == Append(base, RAdd(base[Len(base)], SumPnl(ps, DOMAIN ps)))
             IN  [b EXCEPT !.positions = ps, !.curve = curve,
                           !.stats.max_drawdown =
                               NewMaxDrawdown(b.stats.max_drawdown, Drawdown(curve))]

\* the run replayed from its inputs alone: the snapshots of feed from the k-th
\* on and the orders submitted at each, the last step up to `last` phases
RECURSIVE Replay(_, _, _)
Replay(r, k, last) ==
    IF k > Len(feed) THEN r
    ELSE Replay(ReplayStep(r, feed[k], SubmittedAt(feed[k].timestamp),
                           IF k = Len(feed) THEN last ELSE 3),
                k + 1, last)

\* the phases of the step of the last snapshot that are done
PhasesDone ==
    IF current_data = NoneTick THEN 3
    ELSE CASE pc = "on_data" -> 0
           [] pc = "process_orders" -> 1
           [] pc \in {"update_stats", "crashed"} -> 2
           [] OTHER -> 3

C27_TradeCountersNeverWritten ==
    /\ performance_stats.total_trades = 0
    /\ performance_stats.win_trades = 0
    /\ performance_stats.loss_trades = 0
    /\ "total_profit" \notin DOMAIN performance_stats
    /\ "total_loss" \notin DOMAIN performance_stats
    /\ LET report == GenerateReport(performance_stats)
       IN  /\ report.total_trades = 0
           /\ report.win_rate = Q(0)
           /\ report.total_pnl = Q(0)
           /\ report.profit_factor = Inf

\* a position has just been closed at a loss, after at least two fills in all
C27_Witness ==
    /\ pc = "update_stats"
    /\ \E k \in DOMAIN trace : trace[k].ev = "ledger" /\ trace[k].to = "close"
    /\ IsNum(pnl) /\ RLt(pnl, Q(0))
    /\ Cardinality({ id \in DOMAIN order_objs : order_objs[id].status = "FILLED" }) >= 2
    /\ GenerateReport(performance_stats).total_trades = 0

(* ------------------------------------------- one position per instrument *)
\* the orders a _process_orders step has filled
FilledInStep == { id \in DOMAIN order_objs :
                    order_objs[id].status = "PENDING" /\ order_objs'[id].status = "FILLED" }

StrictlyIncreasing(df) == \A j, k \in DOMAIN df : j < k => df[j].timestamp < df[k].timestamp

\* the value of the last observation of df at or before the label, NaN when
\* there is none
LastKnown(df, label) ==
    LET seen == { j \in DOMAIN df : df[j].timestamp <= label }
    IN  IF seen = {} THEN NaN
        ELSE LET k == CHOOSE j \in seen : \A h \in seen : df[h].timestamp <= df[j].timestamp
             IN  df[k].value

\* C23: in the aligned sequence built from series with strictly increasing
\* timestamps, an instrument is no-data at every axis timestamp before its
\* first observation and from then on shows its last known value at every axis
\* timestamp (its own observation, or the one carried forward), never a value
\* of a later observation.
C23_AlignedSequenceForwardFilled ==
    ds_pc = "aligned" /\ (\A sym \in DOMAIN data : StrictlyIncreasing(data[sym])) =>
        \A k \in DOMAIN aligned_data : \A sym \in DOMAIN data :
            aligned_data[k].cells[sym] = LastKnown(data[sym], aligned_data[k].timestamp)

\* C24: when the series of some instrument has timestamps that are not
\* strictly increasing, load_data fails: no aligned sequence is built from it
\* (neither sorted nor de-duplicated) and no row is ever emitted.
C24_NonMonotonicSeriesRejected ==
    ds_pc # "new" /\ (\E sym \in DOMAIN data : ~StrictlyIncreasing(data[sym])) =>
        /\ ds_pc = "raised"
        /\ aligned_data = << >>
        /\ emitted = << >>

\* C25: over every sequence of start and _push_next_tick calls the rows are
\* emitted in strictly ascending index order (so each row at most once and
\* none after the last one), every emitted index is a row of the aligned
\* sequence, and the current index stays within 0 .. len(aligned_data).
C25_SequencerForwardOnly ==
    /\ \A j, k \in DOMAIN emitted : j < k => emitted[j] < emitted[k]
    /\ \A k \in DOMAIN emitted : emitted[k] \in 0 .. Len(aligned_data) - 1
    /\ current_idx \in 0 .. Len(aligned_data)

====
